---- MODULE Spec2Model ----
(***************************************************************************)
(* Model of numba/np/ufunc/parallel.py: the threading-layer selection, the *)
(* lazy one-time initialisation (_launch_threads) and the runtime          *)
(* parameters (set_num_threads, get_num_threads, set_parallel_chunksize,   *)
(* get_parallel_chunksize) that sit on top of it.                          *)
(***************************************************************************)
EXTENDS Integers, Sequences, FiniteSets, TLC

(***************************************************************************)
(* Bounds of the model.                                                    *)
(***************************************************************************)
NThreads == 2          \* Python threads calling into the module
NUMBA_NUM_THREADS == 2 \* config.NUMBA_NUM_THREADS of the process
MaxCalls == 2          \* public operations called over the whole run
MaxChunk == 1          \* the positive chunk size passed to set_parallel_chunksize
MaxTotal == 10         \* largest total_count handed to the range scheduler
MaxSchedThreads == 4   \* largest thread_count handed to the range scheduler
MaxSchedChunk == 4     \* largest chunk_size the range scheduler works with

Threads == 1..NThreads
NoThread == 0

(***************************************************************************)
(* Values of the program.                                                  *)
(***************************************************************************)
NoLib == "None"                       \* Python None for lib / _threading_layer
namedbackends_omp_first == <<"omp", "tbb", "workqueue">>
namedbackends == <<"tbb", "omp", "workqueue">>
Platforms == {"linux", "osx", "win32", "other"}
Modes == {"tbb", "omp", "workqueue", "threadsafe", "forksafe", "safe",
          "default", "bogus"}
TBB_MIN_IFACE == 11005                \* magic number from TBB
TBBMissing == 0                       \* CDLL(libtbb_name) raises OSError
TbbVersions == {TBBMissing, TBB_MIN_IFACE - 1, TBB_MIN_IFACE}

\* What the environment answers to one selection: the interface version of
\* the TBB runtime (or its absence) and whether each pool module imports.
Envs == [tbbver : TbbVersions, tbbpool : BOOLEAN, omppool : BOOLEAN,
         workqueue : BOOLEAN]

Range(s) == {s[i] : i \in DOMAIN s}

(***************************************************************************)
(* _check_tbb_version_compatible: "ok", or the ImportError it raises;      *)
(* warned tells whether warnings.warn was called.                          *)
(***************************************************************************)
\* the check rejecting the threshold version itself
_check_tbb_version_compatible_strict(plat, ver) ==
    IF plat \notin {"win32", "osx", "linux"}
    THEN [raised |-> "ImportError", warned |-> FALSE]
    ELSE IF ver = TBBMissing
    THEN [raised |-> "ImportError", warned |-> FALSE]
    ELSE IF ver <= TBB_MIN_IFACE
    THEN [raised |-> "ImportError", warned |-> TRUE]
    ELSE [raised |-> "none", warned |-> FALSE]

_check_tbb_version_compatible(plat, ver) ==
    IF plat \notin {"win32", "osx", "linux"}
    THEN [raised |-> "ImportError", warned |-> FALSE]   \* ValueError, translated
    ELSE IF ver = TBBMissing
    THEN [raised |-> "ImportError", warned |-> FALSE]   \* OSError, translated
    ELSE IF ver < TBB_MIN_IFACE
    THEN [raised |-> "ImportError", warned |-> TRUE]
    ELSE [raised |-> "none", warned |-> FALSE]

\* select_known_backend with the import of omppool outside try/except
select_known_backend_omp_fatal(backend, plat, env) ==
    IF backend = "tbb"
    THEN LET chk == _check_tbb_version_compatible(plat, env.tbbver)
         IN  IF chk.raised = "none" /\ env.tbbpool
             THEN [backend |-> backend, lib |-> "tbb", raised |-> "none",
                   warned |-> chk.warned]
             ELSE [backend |-> backend, lib |-> NoLib, raised |-> "none",
                   warned |-> chk.warned]
    ELSE IF backend = "omp"
    THEN IF env.omppool
         THEN [backend |-> backend, lib |-> "omp", raised |-> "none",
               warned |-> FALSE]
         ELSE [backend |-> backend, lib |-> NoLib, raised |-> "ImportError",
               warned |-> FALSE]
    ELSE IF backend = "workqueue"
    THEN IF env.workqueue
         THEN [backend |-> backend, lib |-> "workqueue", raised |-> "none",
               warned |-> FALSE]
         ELSE [backend |-> backend, lib |-> NoLib, raised |-> "ImportError",
               warned |-> FALSE]
    ELSE [backend |-> backend, lib |-> NoLib, raised |-> "ValueError",
          warned |-> FALSE]

(***************************************************************************)
(* select_known_backend(backend): the module bound to lib (NoLib for       *)
(* None), the exception leaving the function, and whether it warned.       *)
(***************************************************************************)
select_known_backend(backend, plat, env) ==
    IF backend = "tbb"
    THEN LET chk == _check_tbb_version_compatible(plat, env.tbbver)
         IN  IF chk.raised = "none" /\ env.tbbpool
             THEN [backend |-> backend, lib |-> "tbb", raised |-> "none",
                   warned |-> chk.warned]
             ELSE [backend |-> backend, lib |-> NoLib, raised |-> "none",
                   warned |-> chk.warned]
    ELSE IF backend = "omp"
    THEN IF env.omppool
         THEN [backend |-> backend, lib |-> "omp", raised |-> "none",
               warned |-> FALSE]
         ELSE [backend |-> backend, lib |-> NoLib, raised |-> "none",
               warned |-> FALSE]
    ELSE IF backend = "workqueue"
    THEN IF env.workqueue
         THEN [backend |-> backend, lib |-> "workqueue", raised |-> "none",
               warned |-> FALSE]
         ELSE [backend |-> backend, lib |-> NoLib, raised |-> "ImportError",
               warned |-> FALSE]
    ELSE [backend |-> backend, lib |-> NoLib, raised |-> "ValueError",
          warned |-> FALSE]

(***************************************************************************)
(* select_from_backends(backends): the for/else loop.  tried records the   *)
(* calls of select_known_backend in the order they were made.              *)
(***************************************************************************)
RECURSIVE select_from_backends_loop(_, _, _, _)
select_from_backends_loop(backends, plat, env, tried) ==
    IF backends = <<>>
    THEN [lib |-> NoLib, backend |-> "", tried |-> tried, raised |-> "none"]
    ELSE LET r == select_known_backend(Head(backends), plat, env)
         IN  IF r.raised # "none"
             THEN [lib |-> NoLib, backend |-> Head(backends),
                   tried |-> Append(tried, r), raised |-> r.raised]
             ELSE IF r.lib # NoLib
             THEN [lib |-> r.lib, backend |-> Head(backends),
                   tried |-> Append(tried, r), raised |-> "none"]
             ELSE select_from_backends_loop(Tail(backends), plat, env,
                                            Append(tried, r))

select_from_backends(backends, plat, env) ==
    select_from_backends_loop(backends, plat, env, <<>>)

(***************************************************************************)
(* The candidate list of a mode: [t] in named mode, `available' in the     *)
(* safety-class modes, namedbackends in default mode.                      *)
(***************************************************************************)
\* `available' with omp offered as fork-safe on Linux too
available_omp_everywhere(t, plat) ==
    IF t = "safe" THEN <<"tbb">>
    ELSE IF t = "threadsafe" THEN <<"tbb", "omp">>
    ELSE IF t = "forksafe" THEN <<"tbb", "omp", "workqueue">>
    ELSE <<>>

available(t, plat) ==
    IF t = "safe" THEN <<"tbb">>
    ELSE IF t = "threadsafe" THEN <<"tbb", "omp">>
    ELSE IF t = "forksafe"
    THEN IF plat # "linux" THEN <<"tbb", "omp", "workqueue">>
                           ELSE <<"tbb", "workqueue">>
    ELSE <<>>

candidates(t, plat) ==
    IF t \in Range(namedbackends) THEN <<t>>
    ELSE IF t \in {"threadsafe", "forksafe", "safe"} THEN available(t, plat)
    ELSE IF t = "default" THEN namedbackends
    ELSE <<>>

\* the entries of `requirements' when the selection of mode t ended with sel
requirements_of(t, plat, sel) ==
    IF t \in Range(namedbackends)
    THEN IF sel.lib = NoLib
         THEN IF t = "tbb" THEN <<"TBB">>
              ELSE IF t = "omp" /\ plat = "osx" THEN <<"OSX_OMP">>
              ELSE <<>>
         ELSE <<>>
    ELSE IF t = "safe" THEN <<"TBB">>
    ELSE IF t \in {"threadsafe", "forksafe"}
    THEN IF plat = "osx" THEN <<"TBB", "OSX_OMP">> ELSE <<"TBB">>
    ELSE IF t = "default"
    THEN IF sel.lib = NoLib
         THEN IF plat = "osx" THEN <<"TBB", "OSX_OMP">> ELSE <<"TBB">>
         ELSE <<>>
    ELSE <<>>

(***************************************************************************)
(* raise_with_hint(required): the ValueError "No threading layer could be  *)
(* loaded", with the helper keys its hint enumerates.                      *)
(***************************************************************************)
raise_with_hint(required) ==
    [kind |-> "ValueError:no_threading_layer", hints |-> required]

(***************************************************************************)
(* The selection part of _launch_threads (from reading                     *)
(* config.THREADING_LAYER to the `if not lib' test): the chosen lib and    *)
(* libname, or the error that leaves _launch_threads.                      *)
(***************************************************************************)
NoError == [kind |-> "none", hints |-> <<>>]

\* the selection with an unknown mode handled like the default mode
selection_unknown_as_default(t, plat, env) ==
    IF TRUE
    THEN LET m == IF t \in Range(namedbackends) \/ t = "default"
                     \/ t \in {"threadsafe", "forksafe", "safe"}
                  THEN t ELSE "default"
             sel == select_from_backends(candidates(m, plat), plat, env)
             req == requirements_of(m, plat, sel)
             libname == IF t \in Range(namedbackends) THEN t ELSE sel.backend
         IN  IF sel.raised # "none"
             THEN [t |-> t, lib |-> NoLib, libname |-> "",
                   tried |-> sel.tried,
                   err |-> [kind |-> sel.raised, hints |-> <<>>]]
             ELSE IF sel.lib = NoLib
             THEN [t |-> t, lib |-> NoLib, libname |-> libname,
                   tried |-> sel.tried, err |-> raise_with_hint(req)]
             ELSE [t |-> t, lib |-> sel.lib, libname |-> libname,
                   tried |-> sel.tried, err |-> NoError]
    ELSE [t |-> t, lib |-> NoLib, libname |-> "", tried |-> <<>>,
          err |-> [kind |-> "ValueError:unknown_threading_layer",
                   hints |-> <<>>]]

\* The error of an unknown mode carries the value of t in its message.
selection(t, plat, env) ==
    IF t \in Range(namedbackends) \/ t \in {"threadsafe", "forksafe", "safe"}
       \/ t = "default"
    THEN LET sel == select_from_backends(candidates(t, plat), plat, env)
             req == requirements_of(t, plat, sel)
             libname == IF t \in Range(namedbackends) THEN t ELSE sel.backend
         IN  IF sel.raised # "none"
             THEN [t |-> t, lib |-> NoLib, libname |-> "",
                   tried |-> sel.tried,
                   err |-> [kind |-> sel.raised, hints |-> <<>>]]
             ELSE IF sel.lib = NoLib
             THEN [t |-> t, lib |-> NoLib, libname |-> libname,
                   tried |-> sel.tried, err |-> raise_with_hint(req)]
             ELSE [t |-> t, lib |-> sel.lib, libname |-> libname,
                   tried |-> sel.tried, err |-> NoError]
    ELSE [t |-> t, lib |-> NoLib, libname |-> "", tried |-> <<>>,
          err |-> [kind |-> "ValueError:unknown_threading_layer",
                   hints |-> <<t>>]]


(***************************************************************************)
(* The runtime parameters.                                                 *)
(***************************************************************************)
NotAnInteger == 0 - 1000              \* stands for an argument such as 1.5
isinstance_int(n) == n # NotAnInteger

\* snt_check with the upper bound off by one
snt_check_loose(n) == n > NUMBA_NUM_THREADS + 1 \/ n < 1

\* snt_check(n), generated by gen_snt_check: TRUE when it raises ValueError
snt_check(n) == n > NUMBA_NUM_THREADS \/ n < 1

\* CFUNCTYPE(None, c_uint): ctypes converts a Python int to unsigned int
\* without a range check.  C_UINT_MODULUS stands for 2^32, which the model
\* checker's integers cannot hold.
C_UINT_MODULUS == 65536
c_uint(n) == n % C_UINT_MODULUS

\* the arguments the operations are called with: the values on both sides
\* of each boundary the code tests
SntArgs == {0 - 1, 0, 1, NUMBA_NUM_THREADS, NUMBA_NUM_THREADS + 1,
            NotAnInteger}
ChunkArgs == {0 - 1, 0, MaxChunk, NotAnInteger}

SymbolGroups == {"parallel_for", "num_threads", "chunksize"}

\* the outcome of a public operation: what it raised ("ok" when it
\* returned), the hints of the error message, the value returned
Result(k, v) == [kind |-> k, hints |-> <<>>, val |-> v]
NoResult == Result("none", 0)
ErrResult(e) == [kind |-> e.kind, hints |-> e.hints, val |-> 0]
InitError == [kind |-> "Error:init", hints |-> <<>>]

(***************************************************************************)
(* The range scheduler of the backend library (do_scheduling_signed,       *)
(* do_scheduling_unsigned, get_sched_size), which this module only         *)
(* registers: the partition of [0, total_count) it is specified to         *)
(* produce.  A range is [start, end).                                      *)
(***************************************************************************)
Min(a, b) == IF a < b THEN a ELSE b

\* chunk_size = 0 with the extra elements given to the last ranges
range_size_extra_last(i, total_count, thread_count) ==
    (total_count \div thread_count)
      + (IF i > thread_count - (total_count % thread_count) THEN 1 ELSE 0)

\* chunk_size = 0: the length of the i-th range; the first
\* total_count mod thread_count ranges get one extra element
range_size(i, total_count, thread_count) ==
    (total_count \div thread_count)
      + (IF i <= total_count % thread_count THEN 1 ELSE 0)

RECURSIVE even_ranges(_, _, _, _)
even_ranges(i, start, total_count, thread_count) ==
    IF i > thread_count \/ start >= total_count
       \/ range_size(i, total_count, thread_count) = 0
    THEN <<>>
    ELSE LET end == start + range_size(i, total_count, thread_count)
         IN  <<[start |-> start, end |-> end]>>
               \o even_ranges(i + 1, end, total_count, thread_count)

\* chunk_size > 0 with the last range not cut at total_count
chunk_end_uncut(start, total_count, chunk_size) == start + chunk_size

\* chunk_size > 0: the end of the range that starts at start
chunk_end(start, total_count, chunk_size) ==
    Min(start + chunk_size, total_count)

RECURSIVE chunked_ranges(_, _, _)
chunked_ranges(start, total_count, chunk_size) ==
    IF start >= total_count
    THEN <<>>
    ELSE <<[start |-> start,
            end |-> chunk_end(start, total_count, chunk_size)]>>
           \o chunked_ranges(start + chunk_size, total_count, chunk_size)

do_scheduling(total_count, thread_count, chunk_size) ==
    IF chunk_size > 0
    THEN chunked_ranges(0, total_count, chunk_size)
    ELSE even_ranges(1, 0, total_count, thread_count)

get_sched_size(total_count, thread_count, chunk_size) ==
    Len(do_scheduling(total_count, thread_count, chunk_size))

NoSchedule == [total_count |-> 0, thread_count |-> 0, chunk_size |-> 0,
               size |-> 0, ranges |-> <<>>]

VARIABLES
    platform,            \* sys.platform, as _IS_LINUX/_IS_OSX/_IS_WINDOWS see it
    procLockKind,        \* _backend_init_process_lock: "rlock" or "nop"
    NUM_THREADS,         \* module constant, from config.NUMBA_NUM_THREADS
    _is_initialized,
    _threading_layer,
    _get_thread_id,      \* the module global: "def" (the function of this
                         \* module) or "cfunc" (the backend's get_thread_id)
    procLockOwner,       \* holder of _backend_init_process_lock
    threadLockOwner,     \* holder of _backend_init_thread_lock
    symbols,             \* ll.add_symbol: group of symbols -> lib providing it
    launchCalls,         \* calls of lib.launch_threads so far
    num_threads,         \* the backend's active thread count
    chunksize,           \* the backend's parallel chunk size
    initFailures,        \* attempts of _launch_threads that raised
    calls,               \* public operations called so far
    pc,                  \* per thread: position in the public operation
    t, tried,            \* per thread: mode read, select_known_backend calls
    lib, libname,        \* per thread: locals of _launch_threads
    err,                 \* per thread: exception propagating out
    result,              \* per thread: outcome of the finished operation
    sched,               \* the schedule of the last scheduler call
    gil,                 \* holder of the host's GIL while a kernel holds it
    kernel               \* per thread: the run of the generated kernel

vars == <<platform, procLockKind, NUM_THREADS, _is_initialized,
          _threading_layer, _get_thread_id, procLockOwner, threadLockOwner, symbols,
          launchCalls, num_threads, chunksize, initFailures, calls, pc, t,
          tried, lib, libname, err, result, sched, gil, kernel>>

config == <<platform, procLockKind, NUM_THREADS>>
locks == <<procLockOwner, threadLockOwner>>
backend == <<symbols, launchCalls, num_threads, chunksize>>
flags == <<_is_initialized, _threading_layer, _get_thread_id>>
locals == <<t, tried, lib, libname>>
dispatch == <<gil, kernel>>

\* the kernel of build_gufunc_kernel before it is entered: pc is the
\* instruction to execute next, steps the instructions executed so far
NoKernel == [pc |-> "idle", held |-> FALSE, gil_state |-> "",
             thread_state |-> FALSE, num_threads |-> 0, arg |-> 0,
             steps |-> <<>>]

\* get_thread_count(): the module cannot be imported with
\* config.NUMBA_NUM_THREADS < 1, so no state exists for such a value
get_thread_count_raises(n) == n < 1

Init ==
    /\ platform \in Platforms
    /\ procLockKind \in {"rlock", "nop"}
    /\ ~get_thread_count_raises(NUMBA_NUM_THREADS)
    /\ NUM_THREADS = NUMBA_NUM_THREADS
    /\ _is_initialized = FALSE
    /\ _threading_layer = NoLib
    /\ _get_thread_id = "def"
    /\ procLockOwner = NoThread
    /\ threadLockOwner = NoThread
    /\ symbols = [g \in SymbolGroups |-> NoLib]
    /\ launchCalls = 0
    /\ num_threads = 0
    /\ chunksize = 0
    /\ initFailures = 0
    /\ calls = 0
    /\ pc = [th \in Threads |-> "idle"]
    /\ t = [th \in Threads |-> ""]
    /\ tried = [th \in Threads |-> <<>>]
    /\ lib = [th \in Threads |-> NoLib]
    /\ libname = [th \in Threads |-> ""]
    /\ err = [th \in Threads |-> NoError]
    /\ result = [th \in Threads |-> NoResult]
    /\ sched = NoSchedule
    /\ gil = NoThread
    /\ kernel = [th \in Threads |-> NoKernel]

(***************************************************************************)
(* A thread calls a public operation (set_num_threads, get_num_threads,    *)
(* set_parallel_chunksize, get_parallel_chunksize, the builders' build):   *)
(* each starts with _launch_threads().                                     *)
(***************************************************************************)
Call(th) ==
    /\ pc[th] = "idle"
    /\ calls < MaxCalls
    /\ calls' = calls + 1
    /\ pc' = [pc EXCEPT ![th] = "acq_proc"]
    /\ UNCHANGED <<config, flags, locks, backend, initFailures, locals, err,
                   result>>

\* a lock that excludes nobody
rlock_free_always(owner, th) == TRUE

\* RLock: free, or held by the thread that asks for it
rlock_free(owner, th) == owner = NoThread \/ owner = th

\* with _backend_init_process_lock:
AcquireProcessLock(th) ==
    /\ pc[th] = "acq_proc"
    /\ IF procLockKind = "rlock"
       THEN /\ rlock_free(procLockOwner, th)
            /\ procLockOwner' = th
       ELSE UNCHANGED procLockOwner
    /\ pc' = [pc EXCEPT ![th] = "acq_thread"]
    /\ UNCHANGED <<config, flags, threadLockOwner, backend, initFailures,
                   calls, locals, err, result>>

\* with _backend_init_thread_lock:
AcquireThreadLock(th) ==
    /\ pc[th] = "acq_thread"
    /\ rlock_free(threadLockOwner, th)
    /\ threadLockOwner' = th
    /\ pc' = [pc EXCEPT ![th] = "check"]
    /\ UNCHANGED <<config, flags, procLockOwner, backend, initFailures,
                   calls, locals, err, result>>

\* _launch_threads without the test of _is_initialized
CheckInitialized_skipped(th) ==
    /\ pc[th] = "check"
    /\ pc' = [pc EXCEPT ![th] = "select"]
    /\ UNCHANGED <<config, flags, locks, backend, initFailures, calls, locals,
                   err, result>>

\* if _is_initialized: return
CheckInitialized(th) ==
    /\ pc[th] = "check"
    /\ pc' = [pc EXCEPT ![th] = IF _is_initialized THEN "rel_thread"
                                                   ELSE "select"]
    /\ UNCHANGED <<config, flags, locks, backend, initFailures, calls, locals,
                   err, result>>

\* t = str(config.THREADING_LAYER).lower() ... if not lib: raise_with_hint,
\* s being what the selection comes to
SelectWith(th, s) ==
    /\ pc[th] = "select"
    /\ lib' = [lib EXCEPT ![th] = s.lib]
    /\ libname' = [libname EXCEPT ![th] = s.libname]
    /\ err' = [err EXCEPT ![th] = s.err]
    /\ pc' = [pc EXCEPT ![th] = IF s.err = NoError THEN "register"
                                                   ELSE "rel_thread"]
    /\ initFailures' = IF s.err = NoError THEN initFailures
                                          ELSE initFailures + 1
    /\ UNCHANGED <<config, flags, locks, backend, calls, result>>

\* the mode m is read from the configuration, env is what the environment
\* answers to the loading of each backend
Select(th) ==
    \E m \in Modes, env \in Envs :
        /\ SelectWith(th, selection(m, platform, env))
        /\ UNCHANGED <<t, tried>>

\* the same step, keeping the mode and the calls of select_known_backend
SelectTraced(th) ==
    \E m \in Modes, env \in Envs :
        LET s == selection(m, platform, env)
        IN  /\ SelectWith(th, s)
            /\ t' = [t EXCEPT ![th] = s.t]
            /\ tried' = [tried EXCEPT ![th] = s.tried]

\* a step of the sequence raised: the exception leaves both with blocks
Raise(th) ==
    /\ err' = [err EXCEPT ![th] = InitError]
    /\ initFailures' = initFailures + 1
    /\ pc' = [pc EXCEPT ![th] = "rel_thread"]

\* ll.add_symbol('numba_parallel_for', ...), do_scheduling_signed/unsigned
Register(th) ==
    /\ pc[th] = "register"
    /\ \/ /\ symbols' = [symbols EXCEPT !["parallel_for"] = lib[th]]
          /\ pc' = [pc EXCEPT ![th] = "launch"]
          /\ UNCHANGED <<err, initFailures>>
       \/ /\ Raise(th)
          /\ UNCHANGED symbols
    /\ UNCHANGED <<config, flags, locks, launchCalls, num_threads, chunksize,
                   calls, locals, result>>

\* _is_initialized set as soon as the threads are launched
Launch_flag_early(th) ==
    /\ pc[th] = "launch"
    /\ \/ /\ launchCalls' = launchCalls + 1
          /\ _is_initialized' = TRUE
          /\ pc' = [pc EXCEPT ![th] = "load_num_threads"]
          /\ UNCHANGED <<err, initFailures>>
       \/ /\ Raise(th)
          /\ UNCHANGED <<launchCalls, _is_initialized>>
    /\ UNCHANGED <<config, _threading_layer, _get_thread_id, locks, symbols,
                   num_threads, chunksize, calls, locals, result>>

\* launch_threads = CFUNCTYPE(None, c_int)(lib.launch_threads)
\* launch_threads(NUM_THREADS)
Launch(th) ==
    /\ pc[th] = "launch"
    /\ \/ /\ launchCalls' = launchCalls + 1
          /\ pc' = [pc EXCEPT ![th] = "load_num_threads"]
          /\ UNCHANGED <<err, initFailures>>
       \/ /\ Raise(th)
          /\ UNCHANGED launchCalls
    /\ UNCHANGED <<config, flags, locks, symbols, num_threads, chunksize,
                   calls, locals, result>>

\* _load_num_threads_funcs without the call _set_num_threads(NUM_THREADS)
_load_num_threads_funcs_no_set(th) ==
    /\ pc[th] = "load_num_threads"
    /\ \/ /\ symbols' = [symbols EXCEPT !["num_threads"] = lib[th]]
          /\ _get_thread_id' = "cfunc"
          /\ pc' = [pc EXCEPT ![th] = "parfor_load_late"]
          /\ UNCHANGED <<err, initFailures>>
       \/ /\ Raise(th)
          /\ UNCHANGED <<symbols, _get_thread_id>>
    /\ UNCHANGED <<config, _is_initialized, _threading_layer, locks,
                   launchCalls, num_threads, chunksize, calls, locals, result>>

\* _load_num_threads_funcs(lib): registers the symbols, then calls
\* _set_num_threads(NUM_THREADS); it may raise before or after that call.
\* Its last statement binds the module global _get_thread_id to the
\* backend's function.
_load_num_threads_funcs(th) ==
    /\ pc[th] = "load_num_threads"
    /\ \/ /\ symbols' = [symbols EXCEPT !["num_threads"] = lib[th]]
          /\ num_threads' = NUM_THREADS
          /\ _get_thread_id' = "cfunc"
          /\ pc' = [pc EXCEPT ![th] = "parfor_load_late"]
          /\ UNCHANGED <<err, initFailures>>
       \/ /\ Raise(th)
          /\ UNCHANGED <<symbols, num_threads, _get_thread_id>>
       \/ /\ Raise(th)
          /\ symbols' = [symbols EXCEPT !["num_threads"] = lib[th]]
          /\ num_threads' = NUM_THREADS
          /\ UNCHANGED _get_thread_id
    /\ UNCHANGED <<config, _is_initialized, _threading_layer, locks,
                   launchCalls, chunksize, calls, locals, result>>

\* parfor_load_late(lib)
parfor_load_late(th) ==
    /\ pc[th] = "parfor_load_late"
    /\ \/ /\ symbols' = [symbols EXCEPT !["chunksize"] = lib[th]]
          /\ pc' = [pc EXCEPT ![th] = "set_layer"]
          /\ UNCHANGED <<err, initFailures>>
       \/ /\ Raise(th)
          /\ UNCHANGED symbols
    /\ UNCHANGED <<config, flags, locks, launchCalls, num_threads, chunksize,
                   calls, locals, result>>

\* _threading_layer = libname
SetThreadingLayer(th) ==
    /\ pc[th] = "set_layer"
    /\ _threading_layer' = libname[th]
    /\ pc' = [pc EXCEPT ![th] = "set_init"]
    /\ UNCHANGED <<config, _is_initialized, _get_thread_id, locks, backend,
                   initFailures, calls, locals, err, result>>

\* _is_initialized = True
SetInitialized(th) ==
    /\ pc[th] = "set_init"
    /\ _is_initialized' = TRUE
    /\ pc' = [pc EXCEPT ![th] = "rel_thread"]
    /\ UNCHANGED <<config, _threading_layer, _get_thread_id, locks, backend,
                   initFailures, calls, locals, err, result>>

\* the thread lock kept when an exception leaves the block
ReleaseThreadLock_not_on_error(th) ==
    /\ pc[th] = "rel_thread"
    /\ threadLockOwner' = IF threadLockOwner = th /\ err[th] = NoError
                          THEN NoThread ELSE threadLockOwner
    /\ lib' = [lib EXCEPT ![th] = NoLib]
    /\ libname' = [libname EXCEPT ![th] = ""]
    /\ pc' = [pc EXCEPT ![th] = "rel_proc"]
    /\ UNCHANGED <<config, flags, procLockOwner, backend, initFailures, calls,
                   t, tried, err, result>>

\* leaving `with _backend_init_thread_lock'
ReleaseThreadLock(th) ==
    /\ pc[th] = "rel_thread"
    /\ threadLockOwner' = IF threadLockOwner = th THEN NoThread
                                                  ELSE threadLockOwner
    /\ lib' = [lib EXCEPT ![th] = NoLib]
    /\ libname' = [libname EXCEPT ![th] = ""]
    /\ pc' = [pc EXCEPT ![th] = "rel_proc"]
    /\ UNCHANGED <<config, flags, procLockOwner, backend, initFailures, calls,
                   t, tried, err, result>>

\* the process lock kept after _launch_threads has been left
ReleaseProcessLock_kept(th) ==
    /\ pc[th] = "rel_proc"
    /\ UNCHANGED procLockOwner
    /\ IF err[th] # NoError
       THEN /\ result' = [result EXCEPT ![th] = ErrResult(err[th])]
            /\ pc' = [pc EXCEPT ![th] = "done"]
       ELSE /\ UNCHANGED result
            /\ pc' = [pc EXCEPT ![th] = "body"]
    /\ err' = [err EXCEPT ![th] = NoError]
    /\ UNCHANGED <<config, flags, threadLockOwner, backend, initFailures,
                   calls, locals>>

\* leaving `with _backend_init_process_lock': _launch_threads returns or
\* raises into the public operation that called it
ReleaseProcessLock(th) ==
    /\ pc[th] = "rel_proc"
    /\ procLockOwner' = IF procLockOwner = th THEN NoThread
                                              ELSE procLockOwner
    /\ IF err[th] # NoError
       THEN /\ result' = [result EXCEPT ![th] = ErrResult(err[th])]
            /\ pc' = [pc EXCEPT ![th] = "done"]
       ELSE /\ UNCHANGED result
            /\ pc' = [pc EXCEPT ![th] = "body"]
    /\ err' = [err EXCEPT ![th] = NoError]
    /\ UNCHANGED <<config, flags, threadLockOwner, backend, initFailures,
                   calls, locals>>

\* a caller that only needed _launch_threads() (the builders' build, or a
\* direct call) goes on without touching this state
launch_only(th) ==
    /\ pc[th] = "body"
    /\ result' = [result EXCEPT ![th] = Result("ok", 0)]
    /\ pc' = [pc EXCEPT ![th] = "done"]
    /\ UNCHANGED <<config, flags, locks, backend, initFailures, calls, locals,
                   err>>

\* set_num_threads storing n before it checks it
set_num_threads_store_first(th, n) ==
    /\ pc[th] = "body"
    /\ IF ~isinstance_int(n)
       THEN /\ result' = [result EXCEPT ![th] = Result("TypeError", 0)]
            /\ UNCHANGED num_threads
       ELSE /\ num_threads' = n
            /\ result' = [result EXCEPT ![th] =
                             IF snt_check(n) THEN Result("ValueError:range", 0)
                                             ELSE Result("ok", 0)]
    /\ pc' = [pc EXCEPT ![th] = "done"]
    /\ UNCHANGED <<config, flags, locks, symbols, launchCalls, chunksize,
                   initFailures, calls, locals, err>>

\* set_num_threads(n) after _launch_threads()
set_num_threads(th, n) ==
    /\ pc[th] = "body"
    /\ IF ~isinstance_int(n)
       THEN /\ result' = [result EXCEPT ![th] =
                             Result("TypeError", 0)]
            /\ UNCHANGED num_threads
       ELSE IF snt_check(n)
       THEN /\ result' = [result EXCEPT ![th] =
                             Result("ValueError:range", 0)]
            /\ UNCHANGED num_threads
       ELSE /\ num_threads' = n
            /\ result' = [result EXCEPT ![th] =
                             Result("ok", 0)]
    /\ pc' = [pc EXCEPT ![th] = "done"]
    /\ UNCHANGED <<config, flags, locks, symbols, launchCalls, chunksize,
                   initFailures, calls, locals, err>>

\* get_num_threads() after _launch_threads()
get_num_threads(th) ==
    /\ pc[th] = "body"
    /\ result' = [result EXCEPT ![th] =
                     IF num_threads <= 0
                     THEN Result("RuntimeError", 0)
                     ELSE Result("ok", num_threads)]
    /\ pc' = [pc EXCEPT ![th] = "done"]
    /\ UNCHANGED <<config, flags, locks, backend, initFailures, calls, locals,
                   err>>

\* set_parallel_chunksize(n) after _launch_threads()
set_parallel_chunksize(th, n) ==
    /\ pc[th] = "body"
    /\ IF ~isinstance_int(n)
       THEN /\ result' = [result EXCEPT ![th] =
                             Result("TypeError", 0)]
            /\ UNCHANGED chunksize
       ELSE /\ chunksize' = c_uint(n)
            /\ result' = [result EXCEPT ![th] =
                             Result("ok", 0)]
    /\ pc' = [pc EXCEPT ![th] = "done"]
    /\ UNCHANGED <<config, flags, locks, symbols, launchCalls, num_threads,
                   initFailures, calls, locals, err>>

\* get_parallel_chunksize() after _launch_threads()
get_parallel_chunksize(th) ==
    /\ pc[th] = "body"
    /\ result' = [result EXCEPT ![th] =
                     Result("ok", chunksize)]
    /\ pc' = [pc EXCEPT ![th] = "done"]
    /\ UNCHANGED <<config, flags, locks, backend, initFailures, calls, locals,
                   err>>

\* _get_thread_id() entered through the function of this module (a caller
\* that looked the name up before it was rebound): after _launch_threads()
\* it calls the global, by then the backend's get_thread_id
_get_thread_id_def(th) ==
    /\ pc[th] = "body"
    /\ result' = [result EXCEPT ![th] = Result("ok", 0)]
    /\ pc' = [pc EXCEPT ![th] = "done"]
    /\ UNCHANGED <<config, flags, locks, backend, initFailures, calls, locals,
                   err>>

\* _get_thread_id() looked up in the module after _load_num_threads_funcs
\* has rebound the name: the call goes to the backend's get_thread_id,
\* without _launch_threads()
_get_thread_id_cfunc(th) ==
    /\ pc[th] = "idle"
    /\ _get_thread_id = "cfunc"
    /\ calls < MaxCalls
    /\ calls' = calls + 1
    /\ result' = [result EXCEPT ![th] = Result("ok:cfunc", 0)]
    /\ pc' = [pc EXCEPT ![th] = "done"]
    /\ UNCHANGED <<config, flags, locks, backend, initFailures, locals, err>>

\* threading_layer(): reads _threading_layer, without _launch_threads() and
\* without a lock
threading_layer(th) ==
    /\ pc[th] = "idle"
    /\ calls < MaxCalls
    /\ calls' = calls + 1
    /\ result' = [result EXCEPT ![th] =
                     IF _threading_layer = NoLib
                     THEN Result("ValueError:not_initialized", 0)
                     ELSE Result("ok:threading_layer", _threading_layer)]
    /\ pc' = [pc EXCEPT ![th] = "done"]
    /\ UNCHANGED <<config, flags, locks, backend, initFailures, locals, err>>

\* the operation's outcome has reached the caller
Return(th) ==
    /\ pc[th] = "done"
    /\ pc' = [pc EXCEPT ![th] = "idle"]
    /\ result' = [result EXCEPT ![th] = NoResult]
    /\ UNCHANGED <<config, flags, locks, backend, initFailures, calls, locals,
                   err>>

\* Handing the outcome to the caller touches nothing the threads share, so
\* it is taken before any other thread moves on.
Returning == \E th \in Threads : pc[th] = "done"

Next ==
    /\ UNCHANGED <<sched, dispatch>>
    /\ \E th \in Threads :
        \/ Return(th)
        \/ /\ ~Returning
           /\ \/ Call(th)
              \/ AcquireProcessLock(th)
              \/ AcquireThreadLock(th)
              \/ CheckInitialized(th)
              \/ Select(th)
              \/ Register(th)
              \/ Launch(th)
              \/ _load_num_threads_funcs(th)
              \/ parfor_load_late(th)
              \/ SetThreadingLayer(th)
              \/ SetInitialized(th)
              \/ ReleaseThreadLock(th)
              \/ ReleaseProcessLock(th)
              \/ launch_only(th)
              \/ \E n \in SntArgs : set_num_threads(th, n)
              \/ get_num_threads(th)
              \/ \E n \in ChunkArgs : set_parallel_chunksize(th, n)
              \/ get_parallel_chunksize(th)
              \/ threading_layer(th)
              \/ _get_thread_id_def(th)
              \/ _get_thread_id_cfunc(th)

Spec == Init /\ [][Next]_vars

(***************************************************************************)
(* _launch_threads on its own, with its scheduling: the threads call it    *)
(* (as the builders' build does) and nothing else.  A thread that is       *)
(* inside the call and can take its next step (the lock it waits for is    *)
(* free, the loading or launching it is in comes to an end) eventually     *)
(* takes it.  Whether a call is made at all is left open.                  *)
(***************************************************************************)
Progress(th) ==
    /\ UNCHANGED <<sched, dispatch>>
    /\ \/ Return(th)
       \/ /\ ~Returning
          /\ \/ AcquireProcessLock(th)
             \/ AcquireThreadLock(th)
             \/ CheckInitialized(th)
             \/ Select(th)
             \/ Register(th)
             \/ Launch(th)
             \/ _load_num_threads_funcs(th)
             \/ parfor_load_late(th)
             \/ SetThreadingLayer(th)
             \/ SetInitialized(th)
             \/ ReleaseThreadLock(th)
             \/ ReleaseProcessLock(th)
             \/ launch_only(th)

NextLive ==
    \E th \in Threads :
        \/ Progress(th)
        \/ /\ ~Returning
           /\ Call(th)
           /\ UNCHANGED <<sched, dispatch>>

SpecLive ==
    Init /\ [][NextLive]_vars /\ \A th \in Threads : WF_vars(Progress(th))

(***************************************************************************)
(* The selection on its own: one thread enters _launch_threads and runs    *)
(* the selection for every mode, platform and answer of the environment.   *)
(***************************************************************************)
NextSel ==
    /\ UNCHANGED <<sched, dispatch>>
    /\ \/ Call(1)
       \/ AcquireProcessLock(1)
       \/ AcquireThreadLock(1)
       \/ CheckInitialized(1)
       \/ SelectTraced(1)

SpecSel == Init /\ [][NextSel]_vars

(***************************************************************************)
(* The range scheduler on its own: it is called for every total_count,     *)
(* thread_count and chunk_size within the bounds.                          *)
(***************************************************************************)
Schedule ==
    \E total_count \in 0..MaxTotal, thread_count \in 1..MaxSchedThreads,
       chunk_size \in 0..MaxSchedChunk :
        /\ sched' = [total_count |-> total_count,
                     thread_count |-> thread_count,
                     chunk_size |-> chunk_size,
                     size |-> get_sched_size(total_count, thread_count,
                                             chunk_size),
                     ranges |-> do_scheduling(total_count, thread_count,
                                              chunk_size)]
        /\ UNCHANGED <<config, flags, locks, backend, initFailures, calls,
                       pc, locals, err, result, dispatch>>

NextSched == Schedule

SpecSched == Init /\ [][NextSched]_vars

(***************************************************************************)
(* The kernel that build_gufunc_kernel generates: straight-line code, one  *)
(* action per instruction.  The builders call _launch_threads() before     *)
(* they build it, so it runs in an initialised process only.  NumPy calls  *)
(* it with or without the GIL.  A thread running Python code takes the GIL *)
(* for the step it makes and hands it on; a kernel holds it from           *)
(* gil_ensure to save_thread and from restore_thread to gil_release.       *)
(***************************************************************************)
module_state == <<config, flags, locks, backend, initFailures, calls, pc,
                  locals, err, result, sched>>

Executed(th, instr, next) ==
    [kernel[th] EXCEPT !.pc = next, !.steps = Append(@, instr)]

\* NumPy enters the kernel, holding the GIL (held) or having released it
kernel_call(th) ==
    /\ kernel[th].pc = "idle"
    /\ pc[th] = "idle"
    /\ _is_initialized
    /\ \E held \in BOOLEAN :
        /\ held => gil = NoThread
        /\ gil' = IF held THEN th ELSE gil
        /\ kernel' = [kernel EXCEPT ![th] =
                         [NoKernel EXCEPT !.pc = "gil_ensure",
                                          !.held = held]]
    /\ UNCHANGED module_state

\* gil_state = pyapi.gil_ensure()
gil_ensure(th) ==
    /\ kernel[th].pc = "gil_ensure"
    /\ gil \in {NoThread, th}
    /\ gil' = th
    /\ kernel' = [kernel EXCEPT ![th] =
                     [Executed(th, "gil_ensure", "save_thread")
                         EXCEPT !.gil_state = IF gil = th THEN "locked"
                                                         ELSE "unlocked"]]
    /\ UNCHANGED module_state

\* a kernel that never suspends the GIL
save_thread_missing(th) ==
    /\ kernel[th].pc = "save_thread"
    /\ kernel' = [kernel EXCEPT ![th] =
                     [kernel[th] EXCEPT !.pc = "get_num_threads"]]
    /\ UNCHANGED <<gil, module_state>>

\* thread_state = pyapi.save_thread()
save_thread(th) ==
    /\ kernel[th].pc = "save_thread"
    /\ gil' = NoThread
    /\ kernel' = [kernel EXCEPT ![th] =
                     [Executed(th, "save_thread", "get_num_threads")
                         EXCEPT !.thread_state = TRUE]]
    /\ UNCHANGED module_state

\* num_threads = builder.call(get_num_threads, [])
call_get_num_threads(th) ==
    /\ kernel[th].pc = "get_num_threads"
    /\ kernel' = [kernel EXCEPT ![th] =
                     [Executed(th, "get_num_threads", "parallel_for")
                         EXCEPT !.num_threads = num_threads]]
    /\ UNCHANGED <<gil, module_state>>

\* builder.call(parallel_for, [...] + [num_threads]): the call is made
parallel_for(th) ==
    /\ kernel[th].pc = "parallel_for"
    /\ kernel' = [kernel EXCEPT ![th] =
                     [Executed(th, "parallel_for", "in_parallel_for")
                         EXCEPT !.arg = kernel[th].num_threads]]
    /\ UNCHANGED <<gil, module_state>>

\* numba_parallel_for comes back, all work items done
parallel_for_returns(th) ==
    /\ kernel[th].pc = "in_parallel_for"
    /\ kernel' = [kernel EXCEPT ![th] =
                     [kernel[th] EXCEPT !.pc = "restore_thread"]]
    /\ UNCHANGED <<gil, module_state>>

\* pyapi.restore_thread(thread_state)
restore_thread(th) ==
    /\ kernel[th].pc = "restore_thread"
    /\ gil = NoThread
    /\ gil' = th
    /\ kernel' = [kernel EXCEPT ![th] =
                     [Executed(th, "restore_thread", "gil_release")
                         EXCEPT !.thread_state = FALSE]]
    /\ UNCHANGED module_state

\* pyapi.gil_release(gil_state)
gil_release(th) ==
    /\ kernel[th].pc = "gil_release"
    /\ gil' = IF kernel[th].gil_state = "unlocked" THEN NoThread ELSE gil
    /\ kernel' = [kernel EXCEPT ![th] =
                     Executed(th, "gil_release", "ret_void")]
    /\ UNCHANGED module_state

\* builder.ret_void(): back in NumPy, which hands the GIL on if it has it
ret_void(th) ==
    /\ kernel[th].pc = "ret_void"
    /\ gil' = IF gil = th THEN NoThread ELSE gil
    /\ kernel' = [kernel EXCEPT ![th] = NoKernel]
    /\ UNCHANGED module_state

\* a step of Python code, made with the GIL by a thread outside a kernel
Python(th) ==
    /\ gil = NoThread
    /\ kernel[th].pc = "idle"
    /\ UNCHANGED <<sched, dispatch>>
    /\ \/ Return(th)
       \/ /\ ~Returning
          /\ \/ Call(th)
             \/ AcquireProcessLock(th)
             \/ AcquireThreadLock(th)
             \/ CheckInitialized(th)
             \/ Select(th)
             \/ Register(th)
             \/ Launch(th)
             \/ _load_num_threads_funcs(th)
             \/ parfor_load_late(th)
             \/ SetThreadingLayer(th)
             \/ SetInitialized(th)
             \/ ReleaseThreadLock(th)
             \/ ReleaseProcessLock(th)
             \/ launch_only(th)
             \/ \E n \in SntArgs : set_num_threads(th, n)

NextKernel ==
    \E th \in Threads :
        \/ Python(th)
        \/ /\ ~Returning
           /\ \/ kernel_call(th)
              \/ gil_ensure(th)
              \/ save_thread(th)
              \/ call_get_num_threads(th)
              \/ parallel_for(th)
              \/ parallel_for_returns(th)
              \/ restore_thread(th)
              \/ gil_release(th)
              \/ ret_void(th)

\* the kernel does not read the platform: one platform stands for all
InitKernel == Init /\ platform = "linux"

SpecKernel == InitKernel /\ [][NextKernel]_vars

TypeOK ==
    /\ _is_initialized \in BOOLEAN
    /\ launchCalls \in Nat
    /\ \A th \in Threads : pc[th] \in
         {"idle", "acq_proc", "acq_thread", "check", "select", "register",
          "launch", "load_num_threads", "parfor_load_late", "set_layer",
          "set_init", "rel_thread", "rel_proc", "body", "done"}

(***************************************************************************)
(* Properties.                                                             *)
(***************************************************************************)
\* positions inside _launch_threads, and inside its initialisation sequence
LaunchPcs == {"acq_proc", "acq_thread", "check", "select", "register",
              "launch", "load_num_threads", "parfor_load_late", "set_layer",
              "set_init", "rel_thread", "rel_proc"}
InitPcs == {"select", "register", "launch", "load_num_threads",
            "parfor_load_late", "set_layer", "set_init"}
Steps(th) == pc'[th] # pc[th]
Rejected(n) == ~isinstance_int(n) \/ n < 1 \/ n > NUM_THREADS
\* the thread is past the _launch_threads() its operation started with
Launched(th) ==
    \/ pc[th] = "body"
    \/ /\ pc[th] = "done"
       /\ result[th].kind \notin {"ok:threading_layer",
                                  "ValueError:not_initialized", "ok:cfunc"}

\* C1: when threads call _launch_threads concurrently on an uninitialised
\* process and no initialisation attempt fails, launch_threads is called
\* exactly once in total and every call that has returned finds
\* _is_initialized true.
C1_LaunchedOnceAllReady ==
    initFailures = 0 =>
        /\ launchCalls <= 1
        /\ \A th \in Threads :
             Launched(th) =>
                 /\ _is_initialized
                 /\ launchCalls = 1

C1_Witness ==
    /\ initFailures = 0
    /\ launchCalls = 1
    /\ \A th \in Threads : pc[th] = "body"

\* C2: a step of the initialisation sequence that fails raises out of
\* _launch_threads with _is_initialized still false, the error is what the
\* caller receives, and a later call that finds _is_initialized false runs
\* the sequence again from the selection.
C2_FailureLeavesUninitialized ==
    /\ [](\A th \in Threads :
            (pc[th] \in {"rel_thread"} /\ err[th] # NoError) =>
                ~_is_initialized)
    /\ [][\A th \in Threads :
            /\ (Steps(th) /\ initFailures' > initFailures) =>
                   /\ err'[th] # NoError
                   /\ pc'[th] = "rel_thread"
                   /\ ~_is_initialized'
            /\ (Steps(th) /\ pc[th] = "rel_thread") => err'[th] = err[th]
            /\ (Steps(th) /\ pc[th] = "rel_proc" /\ err[th] # NoError) =>
                   /\ pc'[th] = "done"
                   /\ result'[th] = ErrResult(err[th])
            /\ (Steps(th) /\ pc[th] = "check" /\ ~_is_initialized) =>
                   pc'[th] = "select"]_vars

C2_Witness ==
    /\ initFailures >= 1
    /\ launchCalls >= 1
    /\ ~_is_initialized
    /\ \E th \in Threads : pc[th] = "select"

\* C3: once _is_initialized is true it stays true, _threading_layer keeps
\* its value, and a later _launch_threads does nothing: no thread enters the
\* initialisation sequence, launch_threads is not called, no symbol is
\* registered and the thread count and chunk size are not reset.
C3_ReadyIsFinal ==
    [][_is_initialized =>
          /\ _is_initialized'
          /\ _threading_layer' = _threading_layer
          /\ launchCalls' = launchCalls
          /\ symbols' = symbols
          /\ \A th \in Threads :
               /\ pc'[th] \notin InitPcs
               /\ (Steps(th) /\ pc[th] \in LaunchPcs) =>
                      UNCHANGED <<num_threads, chunksize>>]_vars

C3_Witness ==
    /\ _is_initialized
    /\ num_threads # NUM_THREADS
    /\ \E th \in Threads : pc[th] = "rel_proc"

\* C4: lib.launch_threads is called at most once over the lifetime of the
\* process, also when an attempt fails after the launch and a later call
\* retries.
C4_LaunchAtMostOnce == launchCalls <= 1

\* C5: set_num_threads(n) raises the range error for every integer n < 1 and
\* every n above the launched thread count, returns normally for every n
\* from 1 to the launched thread count, and the backend's thread count is
\* written (with n) only in the accepted case.
C5_SetNumThreadsRange ==
    [][\A th \in Threads : \A n \in SntArgs \ {NotAnInteger} :
          set_num_threads(th, n) =>
              IF 1 <= n /\ n <= NUM_THREADS
              THEN /\ result'[th].kind = "ok"
                   /\ num_threads' = n
              ELSE /\ result'[th].kind = "ValueError:range"
                   /\ num_threads' = num_threads]_vars

C5_Witness ==
    /\ num_threads = 1
    /\ NUM_THREADS > 1
    /\ \E th \in Threads :
         pc[th] = "done" /\ result[th].kind = "ValueError:range"

\* C6 as claimed: a rejected set_num_threads leaves the initialisation
\* state and the backend as they were before the call, whatever that state
\* was.  For the first call of the process the state before is the initial
\* one.
C6_RejectedMutatesNothing ==
    (/\ calls = 1
     /\ \E th \in Threads :
          /\ pc[th] = "done"
          /\ result[th].kind \in {"ValueError:range", "TypeError"}) =>
        /\ ~_is_initialized
        /\ _threading_layer = NoLib
        /\ launchCalls = 0

\* C6 as amended: the part of set_num_threads that rejects n (a non-integer
\* or an n out of range) changes neither the initialisation state nor the
\* backend, and the _launch_threads it starts with changes none of them
\* either when _is_initialized was already true.
C6_RejectedWriteWhenReady ==
    [][\A th \in Threads :
          /\ \A n \in SntArgs :
               (set_num_threads(th, n) /\ Rejected(n)) =>
                   UNCHANGED <<flags, backend>>
          /\ (_is_initialized /\ Steps(th) /\ pc[th] \in LaunchPcs) =>
                 UNCHANGED <<flags, backend>>]_vars

C6_Witness ==
    /\ _is_initialized
    /\ chunksize = MaxChunk
    /\ \E th \in Threads :
         pc[th] = "done" /\ result[th].kind = "ValueError:range"

\* C7: whenever _is_initialized is true the backend's thread count lies
\* between 1 and the launched thread count, and at the moment
\* _is_initialized becomes true it equals the launched thread count.
C7_ThreadCountInRange ==
    /\ [](_is_initialized => (1 <= num_threads /\ num_threads <= NUM_THREADS))
    /\ [][(~_is_initialized /\ _is_initialized') =>
              num_threads' = NUM_THREADS]_vars

C7_Witness ==
    /\ _is_initialized
    /\ num_threads >= 1
    /\ num_threads < NUM_THREADS
    /\ chunksize # 0

(***************************************************************************)
(* Properties of the selection, on the calls of select_known_backend that  *)
(* SelectTraced keeps.                                                     *)
(***************************************************************************)
Selected(th) == t[th] # ""
Failed(r) == r.lib = NoLib
ValidModes == {"tbb", "omp", "workqueue", "threadsafe", "forksafe", "safe",
               "default"}

\* C8: in default mode the backends are tried in the order tbb, omp,
\* workqueue; the one selected is the first that loads: every backend tried
\* before it failed to load and none is tried after it.
C8_DefaultOrder ==
    \A th \in Threads :
        t[th] = "default" =>
            LET tr == tried[th]
                order == <<"tbb", "omp", "workqueue">>
            IN  /\ Len(tr) >= 1
                /\ Len(tr) <= 3
                /\ \A i \in 1..Len(tr) :
                     /\ tr[i].backend = order[i]
                     /\ i < Len(tr) => Failed(tr[i])
                /\ lib[th] # NoLib =>
                     /\ tr[Len(tr)].lib = lib[th]
                     /\ lib[th] = order[Len(tr)]
                     /\ libname[th] = order[Len(tr)]
                /\ lib[th] = NoLib =>
                     /\ Len(tr) = 3
                     /\ Failed(tr[3])

C8_Witness ==
    \E th \in Threads :
        /\ t[th] = "default"
        /\ Len(tried[th]) = 3
        /\ lib[th] = "workqueue"
        /\ libname[th] = "workqueue"

\* C9: in default mode, when tbb, omp and workqueue all fail to load, the
\* error leaving _launch_threads is the "No threading layer could be loaded"
\* ValueError, with the hint for TBB among its hints.
C9_DefaultNoneLoads ==
    \A th \in Threads :
        (/\ t[th] = "default"
         /\ Len(tried[th]) = 3
         /\ \A i \in 1..3 : Failed(tried[th][i])) =>
            /\ err[th].kind = "ValueError:no_threading_layer"
            /\ "TBB" \in Range(err[th].hints)

\* C10: in every mode the candidates are tried in the order of the mode's
\* list, a candidate that fails to load is followed by the next candidate of
\* the list, and an error leaves the selection only when every candidate of
\* the list has failed to load.
C10_FailureMovesOn ==
    \A th \in Threads :
        (Selected(th) /\ t[th] \in ValidModes) =>
            LET tr == tried[th]
                cand == candidates(t[th], platform)
            IN  /\ Len(tr) >= 1
                /\ Len(tr) <= Len(cand)
                /\ \A i \in 1..Len(tr) :
                     /\ tr[i].backend = cand[i]
                     /\ (Failed(tr[i]) /\ i < Len(cand)) => Len(tr) > i
                /\ err[th] # NoError =>
                     /\ Len(tr) = Len(cand)
                     /\ \A i \in 1..Len(tr) : Failed(tr[i])

C10_Witness ==
    \E th \in Threads :
        /\ t[th] = "forksafe"
        /\ platform = "osx"
        /\ Len(tried[th]) = 3
        /\ Failed(tried[th][1])
        /\ Failed(tried[th][2])
        /\ lib[th] = "workqueue"
        /\ err[th] = NoError

\* C11: in the safety-class modes the candidates are tried in the order
\* safe: tbb; threadsafe: tbb, omp; forksafe: tbb, omp, workqueue off Linux
\* and tbb, workqueue on Linux.  The first that loads is selected, so omp is
\* never selected in forksafe mode on Linux and workqueue never in safe or
\* threadsafe mode.
C11_SafetyClassLists ==
    \A th \in Threads :
        t[th] \in {"safe", "threadsafe", "forksafe"} =>
            LET tr == tried[th]
                list == IF t[th] = "safe" THEN <<"tbb">>
                        ELSE IF t[th] = "threadsafe" THEN <<"tbb", "omp">>
                        ELSE IF platform = "linux" THEN <<"tbb", "workqueue">>
                        ELSE <<"tbb", "omp", "workqueue">>
            IN  /\ Len(tr) >= 1
                /\ Len(tr) <= Len(list)
                /\ \A i \in 1..Len(tr) :
                     /\ tr[i].backend = list[i]
                     /\ i < Len(tr) => Failed(tr[i])
                /\ lib[th] # NoLib =>
                     /\ lib[th] = list[Len(tr)]
                     /\ libname[th] = list[Len(tr)]
                     /\ tr[Len(tr)].lib = lib[th]
                /\ (t[th] = "forksafe" /\ platform = "linux") =>
                     lib[th] # "omp"
                /\ t[th] \in {"safe", "threadsafe"} => lib[th] # "workqueue"

C11_Witness ==
    \E th \in Threads :
        /\ t[th] = "forksafe"
        /\ platform = "linux"
        /\ Len(tried[th]) = 2
        /\ Failed(tried[th][1])
        /\ lib[th] = "workqueue"
        /\ libname[th] = "workqueue"

\* C12: in named mode (tbb, omp, workqueue) exactly that backend is tried and
\* no other is selected; when it fails to load, on every platform, the error
\* leaving _launch_threads is the "No threading layer could be loaded"
\* ValueError carrying a hint for that backend.
C12_NamedModeHint ==
    \A th \in Threads :
        t[th] \in {"tbb", "omp", "workqueue"} =>
            /\ Len(tried[th]) = 1
            /\ tried[th][1].backend = t[th]
            /\ lib[th] # NoLib => (lib[th] = t[th] /\ libname[th] = t[th])
            /\ lib[th] = NoLib =>
                 /\ err[th].kind = "ValueError:no_threading_layer"
                 /\ err[th].hints # <<>>

\* C13: when the mode read from the configuration is not one of tbb, omp,
\* workqueue, threadsafe, forksafe, safe, default, _launch_threads raises
\* the "unknown threading layer" ValueError naming that value; no backend is
\* tried or loaded, and from the selection to the return of the error to
\* the caller the thread changes neither the symbols, the launch count, the
\* backend's parameters, _threading_layer nor _is_initialized, which is
\* false.
UnknownLayer == "ValueError:unknown_threading_layer"

C13_UnknownModeFails ==
    [][\A th \in Threads :
          /\ \A m \in Modes \ ValidModes : \A env \in Envs :
               SelectWith(th, selection(m, platform, env)) =>
                   /\ err'[th] = [kind |-> UnknownLayer, hints |-> <<m>>]
                   /\ lib'[th] = NoLib
                   /\ pc'[th] = "rel_thread"
                   /\ ~_is_initialized'
                   /\ UNCHANGED <<flags, backend>>
          /\ (Steps(th) /\ err[th].kind = UnknownLayer) =>
                 /\ UNCHANGED <<flags, backend>>
                 /\ pc'[th] \in {"rel_proc", "done"}
                 /\ pc'[th] = "done" =>
                        /\ result'[th].kind = UnknownLayer
                        /\ result'[th].hints = err[th].hints]_vars

C13_Witness ==
    /\ ~_is_initialized
    /\ _threading_layer = NoLib
    /\ symbols["parallel_for"] # NoLib
    /\ launchCalls = 1
    /\ \E th \in Threads :
         /\ pc[th] = "done"
         /\ result[th].kind = UnknownLayer
         /\ result[th].hints = <<"bogus">>

\* C14: threading_layer() raises whenever it is called while _is_initialized
\* is false, also from another thread while an initialisation is running;
\* when it returns, it returns the name of the backend whose library was
\* loaded and launched.
C14_LayerQueryFailsUntilReady ==
    \A th \in Threads :
        (pc[th] = "done" /\ result[th].kind = "ok:threading_layer") =>
            /\ _is_initialized
            /\ launchCalls >= 1
            /\ result[th].val = symbols["parallel_for"]

\* C15: a backend whose library lacks a required entry point is treated
\* like one that failed to load: when a step after the selection fails on
\* the selected library, none of that library's symbols is registered and
\* its threads have not been launched by the failing attempt.
C15_MissingEntryPointIsAbsent ==
    \A th \in Threads :
        (pc[th] = "rel_thread" /\ err[th] = InitError) =>
            /\ \A g \in SymbolGroups : symbols[g] # lib[th]
            /\ launchCalls = 0

\* C16: set_parallel_chunksize(n) never stores a value other than n: for an
\* integer n >= 0 it returns and the chunk size read back is n; for an
\* integer n < 0 it raises and the stored chunk size is unchanged.
C16_ChunkSizeStoredExactly ==
    [][\A th \in Threads : \A n \in ChunkArgs \ {NotAnInteger} :
          set_parallel_chunksize(th, n) =>
              IF n >= 0
              THEN /\ result'[th].kind = "ok"
                   /\ chunksize' = n
              ELSE /\ result'[th].kind # "ok"
                   /\ chunksize' = chunksize]_vars

(***************************************************************************)
(* Properties of the range scheduler, on the schedule of the last call.    *)
(***************************************************************************)
Scheduled == sched.thread_count >= 1
RangeLen(r) == r.end - r.start

\* the ranges are ordered, contiguous and non-empty, start at 0 and end at
\* total_count, and every index of [0, total_count) lies in exactly one
Partitions(ranges, total_count) ==
    /\ \A i \in 1..Len(ranges) :
         /\ ranges[i].start < ranges[i].end
         /\ ranges[i].start = IF i = 1 THEN 0 ELSE ranges[i - 1].end
    /\ Len(ranges) > 0 => ranges[Len(ranges)].end = total_count
    /\ \A x \in 0..(total_count - 1) :
         Cardinality({i \in 1..Len(ranges) :
                         ranges[i].start <= x /\ x < ranges[i].end}) = 1

\* C17: with chunk_size = 0, for every total_count >= 0 and
\* thread_count >= 1 the ranges are contiguous, ordered and non-overlapping,
\* cover [0, total_count) exactly once, number at most
\* min(thread_count, total_count) (none when total_count = 0), and two range
\* sizes differ by at most 1 with no earlier range shorter than a later
\* one; total_count = 10, thread_count = 4 gives [0,3),[3,6),[6,8),[8,10).
C17_EvenPartition ==
    (Scheduled /\ sched.chunk_size = 0) =>
        LET r == sched.ranges
        IN  /\ Partitions(r, sched.total_count)
            /\ Len(r) <= Min(sched.thread_count, sched.total_count)
            /\ sched.size = Len(r)
            /\ sched.total_count = 0 => r = <<>>
            /\ \A i \in 1..Len(r) : \A j \in i..Len(r) :
                 /\ RangeLen(r[i]) >= RangeLen(r[j])
                 /\ RangeLen(r[i]) - RangeLen(r[j]) <= 1
            /\ (sched.total_count = 10 /\ sched.thread_count = 4) =>
                 r = <<[start |-> 0, end |-> 3], [start |-> 3, end |-> 6],
                       [start |-> 6, end |-> 8], [start |-> 8, end |-> 10]>>

C17_Witness ==
    /\ Scheduled
    /\ sched.chunk_size = 0
    /\ sched.total_count = 10
    /\ sched.thread_count = 4
    /\ Len(sched.ranges) = 4
    /\ RangeLen(sched.ranges[2]) = 3
    /\ RangeLen(sched.ranges[3]) = 2

\* C18: with chunk_size > 0, for every total_count >= 0 the scheduler
\* produces ceil(total_count / chunk_size) ranges whatever thread_count is,
\* each of length chunk_size except possibly the last, which ends at
\* total_count; chunk_size = 4, total_count = 10 gives [0,4),[4,8),[8,10).
C18_ChunkedPartition ==
    (Scheduled /\ sched.chunk_size > 0) =>
        LET r == sched.ranges
            c == sched.chunk_size
        IN  /\ Partitions(r, sched.total_count)
            /\ Len(r) = (sched.total_count + c - 1) \div c
            /\ sched.size = Len(r)
            /\ \A i \in 1..Len(r) :
                 /\ r[i].start = (i - 1) * c
                 /\ i < Len(r) => RangeLen(r[i]) = c
                 /\ RangeLen(r[i]) <= c
            /\ (c = 4 /\ sched.total_count = 10) =>
                 r = <<[start |-> 0, end |-> 4], [start |-> 4, end |-> 8],
                       [start |-> 8, end |-> 10]>>

C18_Witness ==
    /\ Scheduled
    /\ sched.chunk_size = 4
    /\ sched.total_count = 10
    /\ sched.thread_count = 1
    /\ Len(sched.ranges) = 3
    /\ RangeLen(sched.ranges[3]) = 2

\* C19: no backend entry point is invoked while _is_initialized is false:
\* whenever a public operation (set_num_threads, get_num_threads,
\* _get_thread_id, set_parallel_chunksize, get_parallel_chunksize, the
\* builders' build) is at or past the point where it uses the backend, its
\* _launch_threads() has completed and _is_initialized is true.
C19_EntryPointsOnlyWhenReady ==
    \A th \in Threads :
        (\/ pc[th] = "body"
         \/ /\ pc[th] = "done"
            /\ result[th].kind \in {"ok", "ok:cfunc", "RuntimeError",
                                    "TypeError", "ValueError:range"}) =>
            _is_initialized

(***************************************************************************)
(* Properties of the two locks.  Where _backend_init_process_lock is the   *)
(* no-op context manager, entering it acquires nothing and holding it      *)
(* means being inside its with block.                                      *)
(***************************************************************************)
HoldsThreadLock(th) == threadLockOwner = th
HoldsProcessLock(th) == procLockKind = "rlock" => procLockOwner = th
HoldsNoLock(th) == threadLockOwner # th /\ procLockOwner # th
InBothBlocks == {"check", "select", "register", "launch", "load_num_threads",
                 "parfor_load_late", "set_layer", "set_init", "rel_thread"}
InOuterBlockOnly == {"acq_thread", "rel_proc"}

\* C20: _launch_threads acquires the process lock before the thread lock,
\* tests _is_initialized only while holding both, and holds neither when it
\* has returned or raised, whichever way it was left (already initialised,
\* initialised by this call, or any of the failures).
C20_LockOrderAndRelease ==
    /\ [](\A th \in Threads :
            /\ pc[th] \in InBothBlocks =>
                   (HoldsThreadLock(th) /\ HoldsProcessLock(th))
            /\ pc[th] \in InOuterBlockOnly =>
                   (~HoldsThreadLock(th) /\ HoldsProcessLock(th))
            /\ pc[th] \in {"idle", "acq_proc", "body", "done"} =>
                   HoldsNoLock(th))
    /\ [][\A th \in Threads :
            /\ (threadLockOwner' = th /\ threadLockOwner # th) =>
                   (pc[th] = "acq_thread" /\ HoldsProcessLock(th))
            /\ (procLockOwner' = th /\ procLockOwner # th) =>
                   (pc[th] = "acq_proc" /\ ~HoldsThreadLock(th))
            /\ (Steps(th) /\ pc[th] = "check") =>
                   (HoldsThreadLock(th) /\ HoldsProcessLock(th))
            /\ (Steps(th) /\ pc'[th] \in {"body", "done"}) =>
                   (threadLockOwner' # th /\ procLockOwner' # th)]_vars

C20_Witness ==
    /\ procLockKind = "rlock"
    /\ procLockOwner = NoThread
    /\ threadLockOwner = NoThread
    /\ launchCalls = 1
    /\ ~_is_initialized
    /\ \E th \in Threads :
         /\ pc[th] = "done"
         /\ result[th].kind = InitError.kind

\* C21: at most one thread is inside the initialisation sequence at any
\* time; a thread that calls _launch_threads while another thread is
\* initialising gets past the thread lock, and so returns, only after that
\* thread has left the sequence and released the lock; and every call of
\* _launch_threads eventually returns or raises.
C21_OneInitializerAndProgress ==
    /\ [](\A a, b \in Threads :
            (pc[a] \in InBothBlocks /\ pc[b] \in InBothBlocks) => a = b)
    /\ [][\A th \in Threads :
            (Steps(th) /\ pc[th] = "acq_thread") =>
                \A o \in Threads \ {th} : pc[o] \notin InBothBlocks]_vars
    /\ \A th \in Threads :
         (pc[th] \in LaunchPcs) ~> (pc[th] \in {"body", "done"})

C21_Witness ==
    /\ ~_is_initialized
    /\ initFailures = 1
    /\ \E a, b \in Threads :
         /\ pc[a] = "acq_thread"
         /\ pc[b] = "rel_thread"
         /\ err[b] # NoError

\* C22: when tbb is a candidate and the TBB runtime, loaded on a known
\* platform, reports an interface version below 11005, a warning is issued
\* and tbb counts as not loaded without an exception leaving
\* select_known_backend: the selector goes on to the next candidate of the
\* mode's list.  A version of 11005 or more passes the check without a
\* warning, and tbb is then loaded exactly when tbbpool imports.
C22_TbbVersionCheck ==
    [][\A th \in Threads : \A m \in ValidModes : \A env \in Envs :
          LET s == selection(m, platform, env)
              cand == candidates(m, platform)
          IN  (/\ SelectWith(th, s)
               /\ t'[th] = s.t
               /\ tried'[th] = s.tried
               /\ cand[1] = "tbb"
               /\ platform \in {"win32", "osx", "linux"}
               /\ env.tbbver # TBBMissing) =>
                  LET tr == tried'[th]
                  IN  /\ tr[1].backend = "tbb"
                      /\ tr[1].raised = "none"
                      /\ env.tbbver < 11005 =>
                           /\ tr[1].warned
                           /\ tr[1].lib = NoLib
                           /\ lib'[th] # "tbb"
                           /\ Len(cand) > 1 =>
                                /\ Len(tr) >= 2
                                /\ tr[2].backend = cand[2]
                      /\ env.tbbver >= 11005 =>
                           /\ ~tr[1].warned
                           /\ (tr[1].lib = "tbb") <=> env.tbbpool]_vars

C22_Witness ==
    \E th \in Threads :
        /\ t[th] = "threadsafe"
        /\ platform = "linux"
        /\ Len(tried[th]) = 2
        /\ tried[th][1].backend = "tbb"
        /\ tried[th][1].warned
        /\ lib[th] = "omp"

\* the instructions of the kernel, in the order the builder emits them
KernelOrder == <<"gil_ensure", "save_thread", "get_num_threads",
                 "parallel_for", "restore_thread", "gil_release">>

\* C23: the kernel executes gil_ensure, save_thread, the one read of the
\* active thread count, parallel_for, restore_thread, gil_release, and
\* returns, in that order.  While parallel_for runs the GIL is suspended
\* (saved and not held by the thread) and its thread-count argument is the
\* value read; the GIL is suspended exactly from save_thread to
\* restore_thread, so every suspend has been resumed when the kernel
\* returns.
C23_KernelOrder ==
    \A th \in Threads :
        LET k == kernel[th]
            done == Len(k.steps)
        IN  /\ done <= Len(KernelOrder)
            /\ k.steps = SubSeq(KernelOrder, 1, done)
            /\ k.pc \in {"parallel_for", "in_parallel_for"} =>
                 /\ done >= 2
                 /\ k.steps[2] = "save_thread"
                 /\ "restore_thread" \notin Range(k.steps)
            /\ k.pc = "in_parallel_for" =>
                 /\ k.thread_state
                 /\ gil # th
                 /\ k.arg = k.num_threads
            /\ k.thread_state <=>
                 /\ "save_thread" \in Range(k.steps)
                 /\ "restore_thread" \notin Range(k.steps)
            /\ k.pc = "ret_void" =>
                 /\ k.steps = KernelOrder
                 /\ ~k.thread_state
                 /\ (gil = th) <=> k.held

\* a kernel about to return whose parallel_for got the count it read,
\* which set_num_threads has changed since
C23_Witness ==
    \E th \in Threads :
        /\ kernel[th].pc = "ret_void"
        /\ kernel[th].steps = KernelOrder
        /\ kernel[th].arg # num_threads

====
